---- MODULE Spec2Model ----
(***************************************************************************)
(* focus-stack: the task-dependency execution engine and the pairwise      *)
(* image alignment task (src/src/task_align.cc), with the exit-code        *)
(* plumbing of src/src/main.cc.                                            *)
(*                                                                         *)
(* A run is a DAG of tasks: one load task, one grayscale task, one         *)
(* alignment task and one save task per input image.  Worker threads pick  *)
(* ready tasks; an alignment task walks through the passes of              *)
(* Task_Align::task().  Pixel buffers are modelled by the identity of the  *)
(* task that allocated them, cv::Mat assignment by sharing that identity,  *)
(* shared_ptr members by the set of members that are still non-null.       *)
(***************************************************************************)
EXTENDS Integers, Sequences, FiniteSets, TLC

\* ------------------------------------------------------------------------
\* Bounds of the model
\* ------------------------------------------------------------------------
NumImages == 3
NumThreads == 2
\* index of the reference image (--reference)
Reference == 1
\* longest side, in pixels, of the images whose ROI is computed
MaxSide == 6
\* longest side, in pixels, of the images the photometric apply scans
MaxDim == 2
\* the fitted coefficients are multiples of 1/CoeffUnit
CoeffUnit == 2

\* ------------------------------------------------------------------------
\* Program constants
\* ------------------------------------------------------------------------
RoughResolution == 256
DefaultResolution == 2048

Images == 1..NumImages

\* longer side of the input images, one value per case of the resolution caps
Resolutions == {200, 1000, 3000}

AlignFlagNames == {"ALIGN_GLOBAL", "ALIGN_FULL_RESOLUTION",
                   "ALIGN_NO_WHITEBALANCE", "ALIGN_NO_CONTRAST"}

Kinds == {"Load", "Gray", "Align", "Save"}
Tasks == Kinds \X Images
Load(i) == <<"Load", i>>
Gray(i) == <<"Gray", i>>
Align(i) == <<"Align", i>>
Save(i) == <<"Save", i>>
AlignTasks == {Align(i) : i \in Images}

NoTask == <<"none", 0>>

VARIABLES
    m_flags,          \* FocusStack::align_flags_t handed to every Task_Align
    threads,          \* number of worker threads (--threads)
    cropinfo,         \* TRUE when the builder hands a crop-info task to Task_Align
    resolution,       \* max(cols, rows) of the decoded images
    degenerate,       \* the least-squares systems the input images make degenerate
    state,            \* completion state of every task
    pc,               \* position of an alignment task inside Task_Align::task()
    held,             \* the shared_ptr members of a task that are still set
    depsHeld,         \* TRUE while the task still holds m_depends_on
    m_result,         \* the buffer a task published (named by its allocator)
    m_transformation, \* Task_Align::m_transformation
    m_contrast,       \* Task_Align::m_contrast
    m_whitebalance,   \* Task_Align::m_whitebalance
    m_roi,            \* Task_Align::m_roi
    src,              \* the local cv::Mat src of match_transform
    samples,          \* history: every sampling of the source image
    written,          \* history: every buffer modified in place
    seed,             \* history: what the seeding step read from the neighbour
    solverFailed,     \* history: a numerical solver failed inside this task
    exit,             \* <<status>> once main has returned, <<>> before
    img_size,         \* cols and rows of the image Task_Align::task() measures
    orig_size,        \* ImgTask::orig_size() of the crop-info task
    roi_rect,         \* the cv::Rect assigned to m_roi, NoRect before
    img_channels,     \* img.channels() in apply_contrast_whitebalance
    contrast,         \* the five coefficients of m_contrast, in 1/CoeffUnit
    whitebalance,     \* the six coefficients of m_whitebalance
    scan,             \* number of pixels the apply loop has written
    delta,            \* the carried value of the apply loop, per channel, in 1/Denominator
    pixel             \* the pixel value the apply loop wrote last, per channel

vars == <<m_flags, threads, cropinfo, resolution, degenerate, state, pc, held, depsHeld,
          m_result, m_transformation, m_contrast, m_whitebalance, m_roi, src,
          samples, written, seed, solverFailed, exit,
          img_size, orig_size, roi_rect, img_channels, contrast, whitebalance, scan, delta, pixel>>

\* the variables of the numerical steps of Task_Align
numeric == <<img_size, orig_size, roi_rect, img_channels, contrast, whitebalance, scan, delta, pixel>>

config == <<m_flags, threads, cropinfo, resolution, degenerate>>

\* ------------------------------------------------------------------------
\* Values
\* ------------------------------------------------------------------------
NoBuf == <<"none", NoTask>>
\* the buffer a task allocates for its published result
Img(t) == <<"img", t>>
\* a buffer a task allocates for a local cv::Mat (src, tmp)
Tmp(t) == <<"tmp", t>>

Identity == <<"identity">>
Solved(t, pass) == <<"solved", t, pass>>
Unresolved(t) == <<"unresolved", t>>

\* ------------------------------------------------------------------------
\* Task graph
\* ------------------------------------------------------------------------
\* the neighbour of image i that is closer to the reference
Neighbour(i) == IF i < Reference THEN i + 1 ELSE IF i > Reference THEN i - 1 ELSE i

Chained == "ALIGN_GLOBAL" \notin m_flags

\* the arguments the graph builder hands to the constructor of Task_Align
AlignArgs(i) ==
    LET r == IF Chained THEN Neighbour(i) ELSE Reference
    IN  [refgray |-> Gray(r), refcolor |-> Load(r),
         srcgray |-> Gray(i), srccolor |-> Load(i),
         initial_guess |-> IF Chained /\ i # Reference THEN Align(Neighbour(i)) ELSE NoTask,
         cropinfo |-> IF cropinfo THEN Load(Reference) ELSE NoTask]

\* Task_Align::Task_Align, the members m_refgray .. m_cropinfo
Task_Align_members_NoSrcgray(a) ==
    [m_refgray |-> a.refgray, m_refcolor |-> a.refcolor,
     m_srcgray |-> NoTask, m_srccolor |-> a.srccolor,
     m_initial_guess |-> a.initial_guess, m_cropinfo |-> a.cropinfo]

Task_Align_members(a) ==
    [m_refgray |-> a.refgray, m_refcolor |-> a.refcolor,
     m_srcgray |-> a.srcgray, m_srccolor |-> a.srccolor,
     m_initial_guess |-> a.initial_guess, m_cropinfo |-> a.cropinfo]

\* Task_Align::Task_Align, the push_backs into m_depends_on
Task_Align_depends_on_NoGuess(a) ==
    <<a.refgray, a.refcolor, a.srcgray, a.srccolor>>
        \o (IF a.cropinfo # NoTask THEN <<a.cropinfo>> ELSE <<>>)

Task_Align_depends_on(a) ==
    <<a.refgray, a.refcolor, a.srcgray, a.srccolor>>
        \o (IF a.initial_guess # NoTask THEN <<a.initial_guess>> ELSE <<>>)
        \o (IF a.cropinfo # NoTask THEN <<a.cropinfo>> ELSE <<>>)

\* the shared_ptr members of every task, by name; NoTask is a null pointer
Members(t) ==
    CASE t[1] = "Align" -> Task_Align_members(AlignArgs(t[2]))
      [] t[1] = "Gray"  -> [m_input |-> Load(t[2])]
      [] t[1] = "Save"  -> [m_input |-> Align(t[2])]
      [] OTHER          -> [m_none |-> NoTask]

MemberNames(t) == {f \in DOMAIN Members(t) : Members(t)[f] # NoTask}

m_depends_on(t) ==
    CASE t[1] = "Align" -> Task_Align_depends_on(AlignArgs(t[2]))
      [] t[1] = "Gray"  -> <<Load(t[2])>>
      [] t[1] = "Save"  -> <<Align(t[2])>>
      [] OTHER          -> <<>>

Range(s) == {s[k] : k \in DOMAIN s}
Deps(t) == Range(m_depends_on(t))
Dependents(d) == {t \in Tasks : d \in Deps(t)}

\* ------------------------------------------------------------------------
\* Ownership: shared_ptr<Task> and the reference counted cv::Mat
\* ------------------------------------------------------------------------
\* the tasks that task t still points to
Pointees(t) ==
    {Members(t)[f] : f \in held[t]} \cup (IF depsHeld[t] THEN Deps(t) ELSE {})

\* a task object lives while the worker pool has it queued or running, or
\* while another task points to it
TaskAlive(d) ==
    \/ state[d] \in {"Pending", "Ready", "Running"}
    \/ \E t \in Tasks : d \in Pointees(t)

\* a pixel buffer lives while a living task has it as its m_result
BufferAlive(b) == \E t \in Tasks : TaskAlive(t) /\ m_result[t] = b

\* ------------------------------------------------------------------------
\* Initial state
\* ------------------------------------------------------------------------
\* the state after the graph is built
Constructed ==
    /\ state = [t \in Tasks |-> IF Deps(t) = {} THEN "Ready" ELSE "Pending"]
    /\ pc = [t \in AlignTasks |-> "constructed"]
    /\ held = [t \in Tasks |-> MemberNames(t)]
    /\ depsHeld = [t \in Tasks |-> TRUE]
    /\ m_result = [t \in Tasks |-> NoBuf]
    /\ m_transformation = [t \in AlignTasks |-> [m |-> Identity, scaled |-> FALSE]]
    /\ m_contrast = [t \in AlignTasks |-> "identity"]
    /\ m_whitebalance = [t \in AlignTasks |-> "identity"]
    /\ m_roi = [t \in AlignTasks |-> <<"unset", NoTask>>]
    /\ src = [t \in AlignTasks |-> NoBuf]
    /\ samples = [t \in AlignTasks |-> <<>>]
    /\ written = [t \in AlignTasks |-> {}]
    /\ seed = [t \in AlignTasks |-> <<>>]
    /\ solverFailed = [t \in AlignTasks |-> FALSE]
    /\ exit = <<>>

\* cv::Rect(x, y, width, height)
Rect(x, y, width, height) == [x |-> x, y |-> y, width |-> width, height |-> height]

\* the default-constructed m_roi
NoRect == Rect(0, 0, 0, 0)

\* no ROI measured yet
RoiUnset ==
    /\ img_size = [cols |-> 0, rows |-> 0]
    /\ orig_size = [width |-> 0, height |-> 0]
    /\ roi_rect = NoRect

\* the apply loop not entered
ApplyUnset ==
    /\ img_channels = 0
    /\ contrast = <<>>
    /\ whitebalance = <<>>
    /\ scan = 0
    /\ delta = <<>>
    /\ pixel = <<>>

\* the worker pool at work: NumThreads workers, chained or global alignment,
\* with or without crop info, the photometric fits enabled, images that give
\* well-conditioned fits
Init ==
    /\ m_flags \in SUBSET {"ALIGN_GLOBAL"}
    /\ threads = NumThreads
    /\ cropinfo \in BOOLEAN
    /\ resolution \in {1000}
    /\ degenerate = {}
    /\ Constructed
    /\ RoiUnset
    /\ ApplyUnset

\* the alignment task in every configuration: chained alignment with every
\* combination of the other flags, every image size, images that make either fit degenerate,
\* run by a single worker (--threads=1) on uncropped images
InitAlign ==
    /\ m_flags \in SUBSET (AlignFlagNames \ {"ALIGN_GLOBAL"})
    /\ threads = 1
    /\ cropinfo = FALSE
    /\ resolution \in Resolutions
    /\ degenerate \in SUBSET {"contrast", "whitebalance"}
    /\ Constructed
    /\ RoiUnset
    /\ ApplyUnset

\* ------------------------------------------------------------------------
\* Worker pool
\* ------------------------------------------------------------------------
Running == {t \in Tasks : state[t] = "Running"}

\* the ready predicate of a task: all dependencies are Done
ReadyToRun(st, t) == \A d \in Deps(t) : st[d] = "Done"

\* task t ends its run() with the given outcome; the scheduler then
\* re-evaluates the readiness of the tasks that are still pending
CompletedHaltsOnFailure(t, outcome) ==
    LET st == [state EXCEPT ![t] = outcome]
        failed == \E u \in Tasks : st[u] = "Failed"
    IN  [u \in Tasks |-> IF st[u] = "Pending" /\ ReadyToRun(st, u) /\ ~failed
                         THEN "Ready" ELSE st[u]]

Completed(t, outcome) ==
    LET st == [state EXCEPT ![t] = outcome]
    IN  [u \in Tasks |-> IF st[u] = "Pending" /\ ReadyToRun(st, u) THEN "Ready" ELSE st[u]]

\* a worker takes a ready task from the queue
Schedule(t) ==
    /\ exit = <<>>
    /\ state[t] = "Ready"
    /\ Cardinality(Running) < threads
    /\ state' = [state EXCEPT ![t] = "Running"]
    /\ pc' = IF t \in AlignTasks THEN [pc EXCEPT ![t] = "begin"] ELSE pc
    /\ UNCHANGED <<numeric, config, held, depsHeld, m_result, m_transformation, m_contrast,
                   m_whitebalance, m_roi, src, samples, written, seed, solverFailed, exit>>

\* Task_LoadImg: decodes one input file; an unreadable file fails the task
RunLoad(i) ==
    /\ state[Load(i)] = "Running"
    /\ \E ok \in BOOLEAN :
         /\ state' = Completed(Load(i), IF ok THEN "Done" ELSE "Failed")
         /\ m_result' = IF ok THEN [m_result EXCEPT ![Load(i)] = Img(Load(i))] ELSE m_result
         /\ depsHeld' = IF ok THEN [depsHeld EXCEPT ![Load(i)] = FALSE] ELSE depsHeld
    /\ UNCHANGED <<numeric, config, pc, held, m_transformation, m_contrast, m_whitebalance,
                   m_roi, src, samples, written, seed, solverFailed, exit>>

\* the grayscale task: publishes a new single channel buffer
RunGray(i) ==
    /\ state[Gray(i)] = "Running"
    /\ state' = Completed(Gray(i), "Done")
    /\ m_result' = [m_result EXCEPT ![Gray(i)] = Img(Gray(i))]
    /\ held' = [held EXCEPT ![Gray(i)] = {}]
    /\ depsHeld' = [depsHeld EXCEPT ![Gray(i)] = FALSE]
    /\ UNCHANGED <<numeric, config, pc, m_transformation, m_contrast, m_whitebalance,
                   m_roi, src, samples, written, seed, solverFailed, exit>>

\* Task_SaveImg: writes its input to disk, publishes no buffer
RunSave(i) ==
    /\ state[Save(i)] = "Running"
    /\ state' = Completed(Save(i), "Done")
    /\ held' = [held EXCEPT ![Save(i)] = {}]
    /\ depsHeld' = [depsHeld EXCEPT ![Save(i)] = FALSE]
    /\ UNCHANGED <<numeric, config, pc, m_result, m_transformation, m_contrast, m_whitebalance,
                   m_roi, src, samples, written, seed, solverFailed, exit>>

\* main: the exit status for the result of FocusStack::run()
MainExitAlwaysZero(ok) == 0

MainExit(ok) == IF ~ok THEN 1 ELSE 0

\* FocusStack::run() returns once nothing is running or ready any more, and
\* main turns its result into the exit status
RunReturns ==
    /\ exit = <<>>
    /\ \A t \in Tasks : state[t] \notin {"Ready", "Running"}
    /\ exit' = <<MainExit(\A t \in Tasks : state[t] = "Done")>>
    /\ UNCHANGED <<numeric, config, state, pc, held, depsHeld, m_result, m_transformation,
                   m_contrast, m_whitebalance, m_roi, src, samples, written, seed, solverFailed>>

\* ------------------------------------------------------------------------
\* Task_Align::task()
\* ------------------------------------------------------------------------
HasFlag(f) == f \in m_flags

\* the members m_refgray .. m_cropinfo after the resets that end task()
ResetMembersKeepSrccolor(h) == h \cap {"m_srccolor"}

ResetMembers(h) ==
    h \ {"m_refgray", "m_refcolor", "m_srcgray", "m_srccolor",
         "m_initial_guess", "m_cropinfo"}

\* apply_contrast_whitebalance: what it applies to an image of that many
\* channels; a grayscale image gets the contrast model only
ApplyContrastWhitebalance(channels) ==
    [contrast |-> TRUE, whitebalance |-> channels # 1]

NotApplied == [contrast |-> FALSE, whitebalance |-> FALSE]

\* one sampling of the source image by task t: the stage, which models were
\* applied to the sample, and which models had been estimated by then
Sample(t, stage, applied) ==
    [stage |-> stage,
     contrast |-> applied.contrast,
     whitebalance |-> applied.whitebalance,
     contrastEstimated |-> m_contrast[t] # "identity",
     whitebalanceEstimated |-> m_whitebalance[t] # "identity"]

\* the pass that follows the rough geometric pass, or the contrast fit
AfterRough ==
    IF ~HasFlag("ALIGN_NO_CONTRAST") THEN "contrast"
    ELSE IF ~HasFlag("ALIGN_NO_WHITEBALANCE") THEN "whitebalance"
    ELSE "final"

AfterContrast ==
    IF ~HasFlag("ALIGN_NO_WHITEBALANCE") THEN "whitebalance" ELSE "final"

\* the test that opens task(): the source color image IS the reference one
ShortCircuitNever(m) == FALSE

ShortCircuit(m) == m.m_refcolor = m.m_srccolor

\* the short-circuit path: the source color image is the reference color
\* image, the result shares its pixels, the members are reset
AlignShortCircuit(i) ==
    LET t == Align(i)
        m == Members(t)
    IN  /\ state[t] = "Running"
        /\ pc[t] = "begin"
        /\ ShortCircuit(m)
        /\ m_result' = [m_result EXCEPT ![t] = m_result[m.m_srccolor]]
        /\ held' = [held EXCEPT ![t] = ResetMembers(held[t])]
        /\ depsHeld' = [depsHeld EXCEPT ![t] = FALSE]
        /\ pc' = [pc EXCEPT ![t] = "done"]
        /\ state' = Completed(t, "Done")
        /\ UNCHANGED <<numeric, config, m_transformation, m_contrast, m_whitebalance, m_roi,
                       src, samples, written, seed, solverFailed, exit>>

\* the transform the registration starts from
SeedIgnoresGuess(t, guess) == m_transformation[t]

Seed(t, guess) ==
    IF guess # NoTask THEN m_transformation[guess] ELSE m_transformation[t]

\* the full registration path, up to the first pass: seeding and the ROI
AlignSeed(i) ==
    LET t == Align(i)
        m == Members(t)
        guess == IF "m_initial_guess" \in held[t] THEN m.m_initial_guess ELSE NoTask
    IN  /\ state[t] = "Running"
        /\ pc[t] = "begin"
        /\ ~ShortCircuit(m)
        /\ m_transformation' = [m_transformation EXCEPT ![t] = Seed(t, guess)]
        /\ seed' = [seed EXCEPT ![t] =
                      <<[from |-> guess,
                         neighbourState |-> IF guess # NoTask THEN state[guess] ELSE "none",
                         neighbourPc |-> IF guess # NoTask THEN pc[guess] ELSE "none"]>>]
        /\ m_roi' = [m_roi EXCEPT ![t] =
                      IF "m_cropinfo" \in held[t] THEN <<"cropped", m.m_cropinfo>>
                      ELSE <<"full", m.m_srccolor>>]
        /\ pc' = [pc EXCEPT ![t] = "rough"]
        /\ UNCHANGED <<numeric, config, state, held, depsHeld, m_result, m_contrast,
                       m_whitebalance, src, samples, written, solverFailed, exit>>

\* match_transform: the resolution cap of a pass
MaxResolution(rough) ==
    IF rough THEN RoughResolution
    ELSE IF HasFlag("ALIGN_FULL_RESOLUTION") THEN resolution
    ELSE DefaultResolution

\* match_transform: the buffer behind the local src, which the photometric
\* correction then modifies in place.  Below the cap it is a deep copy of
\* the grayscale source (copyTo), above the cap a resized image.
MatchTransformSrcShared(t, res, max_resolution) ==
    IF res <= max_resolution THEN m_result[Members(t).m_srcgray] ELSE Tmp(t)

MatchTransformSrc(t, res, max_resolution) ==
    IF res <= max_resolution THEN Tmp(t) ELSE Tmp(t)

\* match_transform: what is applied to src before the ECC search
MatchTransformNoCorrection(channels) == NotApplied

MatchTransformCorrection(channels) == ApplyContrastWhitebalance(channels)

\* match_transform(256, true) and match_transform(.., false).  The ECC search
\* either converges or throws cv::Exception, which ends task() at once.
MatchTransform(i) ==
    LET t == Align(i)
        rough == pc[t] = "rough"
        max_resolution == MaxResolution(rough)
        buf == MatchTransformSrc(t, resolution, max_resolution)
        scale_ratio_is_1 == resolution <= max_resolution
        applied == MatchTransformCorrection(1)
    IN  /\ state[t] = "Running"
        /\ pc[t] \in {"rough", "final"}
        /\ src' = [src EXCEPT ![t] = buf]
        /\ written' = [written EXCEPT ![t] = @ \cup {buf}]
        /\ samples' = [samples EXCEPT ![t] = Append(@, Sample(t, pc[t], applied))]
        /\ \E converged \in BOOLEAN :
             IF converged
             THEN /\ m_transformation' = [m_transformation EXCEPT ![t] =
                                            [m |-> Solved(t, pc[t]), scaled |-> FALSE]]
                  /\ pc' = [pc EXCEPT ![t] = IF rough THEN AfterRough ELSE "apply"]
                  /\ UNCHANGED <<state, solverFailed>>
             ELSE /\ m_transformation' = [m_transformation EXCEPT ![t] =
                                            [m |-> Unresolved(t), scaled |-> ~scale_ratio_is_1]]
                  /\ pc' = [pc EXCEPT ![t] = "thrown"]
                  /\ solverFailed' = [solverFailed EXCEPT ![t] = TRUE]
                  /\ state' = Completed(t, "Failed")
        /\ UNCHANGED <<numeric, config, held, depsHeld, m_result, m_contrast, m_whitebalance,
                       m_roi, seed, exit>>

\* match_contrast: samples the warped grayscale source into a new buffer and
\* solves the least-squares system; the result of cv::solve is not looked at
MatchContrast(i) ==
    LET t == Align(i)
        solved == "contrast" \notin degenerate
    IN  /\ state[t] = "Running"
        /\ pc[t] = "contrast"
        /\ samples' = [samples EXCEPT ![t] = Append(@, Sample(t, "contrast", NotApplied))]
        /\ m_contrast' = [m_contrast EXCEPT ![t] =
                            IF solved THEN "fitted" ELSE "degenerate"]
        /\ solverFailed' = [solverFailed EXCEPT ![t] = @ \/ ~solved]
        /\ pc' = [pc EXCEPT ![t] = AfterContrast]
        /\ UNCHANGED <<numeric, config, state, held, depsHeld, m_result, m_transformation,
                       m_whitebalance, m_roi, src, written, seed, exit>>

\* match_whitebalance: samples the warped color source into a new buffer,
\* corrects it in place and solves the least-squares system; the result of
\* cv::solve is not looked at
MatchWhitebalance(i) ==
    LET t == Align(i)
        solved == "whitebalance" \notin degenerate
    IN  /\ state[t] = "Running"
        /\ pc[t] = "whitebalance"
        /\ written' = [written EXCEPT ![t] = @ \cup {Tmp(t)}]
        /\ samples' = [samples EXCEPT ![t] =
                         Append(@, Sample(t, "whitebalance", ApplyContrastWhitebalance(3)))]
        /\ m_whitebalance' = [m_whitebalance EXCEPT ![t] =
                                IF solved THEN "fitted" ELSE "degenerate"]
        /\ solverFailed' = [solverFailed EXCEPT ![t] = @ \/ ~solved]
        /\ pc' = [pc EXCEPT ![t] = "final"]
        /\ UNCHANGED <<numeric, config, state, held, depsHeld, m_result, m_transformation,
                       m_contrast, m_roi, src, seed, exit>>

\* the end of the full registration path: the warp into m_result, the
\* photometric apply, the resets; run() returns and the task is Done
AlignApply(i) ==
    LET t == Align(i)
        correct == ~HasFlag("ALIGN_NO_CONTRAST") \/ ~HasFlag("ALIGN_NO_WHITEBALANCE")
    IN  /\ state[t] = "Running"
        /\ pc[t] = "apply"
        /\ m_result' = [m_result EXCEPT ![t] = Img(t)]
        /\ written' = [written EXCEPT ![t] = IF correct THEN @ \cup {Img(t)} ELSE @]
        /\ samples' = [samples EXCEPT ![t] =
                         Append(@, Sample(t, "output",
                                   IF correct THEN ApplyContrastWhitebalance(3)
                                   ELSE NotApplied))]
        /\ held' = [held EXCEPT ![t] = ResetMembers(held[t])]
        /\ depsHeld' = [depsHeld EXCEPT ![t] = FALSE]
        /\ pc' = [pc EXCEPT ![t] = "done"]
        /\ state' = Completed(t, "Done")
        /\ UNCHANGED <<numeric, config, m_transformation, m_contrast, m_whitebalance, m_roi,
                       src, seed, solverFailed, exit>>

\* ------------------------------------------------------------------------
\* Specification
\* ------------------------------------------------------------------------
Next ==
    \/ \E t \in Tasks : Schedule(t)
    \/ \E i \in Images : RunLoad(i)
    \/ \E i \in Images : RunGray(i)
    \/ \E i \in Images : RunSave(i)
    \/ \E i \in Images : AlignShortCircuit(i)
    \/ \E i \in Images : AlignSeed(i)
    \/ \E i \in Images : MatchTransform(i)
    \/ \E i \in Images : MatchContrast(i)
    \/ \E i \in Images : MatchWhitebalance(i)
    \/ \E i \in Images : AlignApply(i)
    \/ RunReturns

Spec == Init /\ [][Next]_vars

AlignSpec == InitAlign /\ [][Next]_vars

\* a worker that has a task to take or to go on with does so
FairSpec == Spec /\ WF_vars(Next)

\* ------------------------------------------------------------------------
\* Task_Align::task(): the ROI rectangle
\* ------------------------------------------------------------------------
\* the variables of the task graph
pipeline == <<config, state, pc, held, depsHeld, m_result, m_transformation, m_contrast,
              m_whitebalance, m_roi, src, samples, written, seed, solverFailed, exit>>

\* the variables of the apply loop
applyVars == <<img_channels, contrast, whitebalance, scan, delta, pixel>>

\* int / int and (int)float of C++: the quotient rounded towards zero
TruncDiv(a, b) == IF a >= 0 THEN a \div b ELSE -((-a) \div b)

\* a ROI that takes the whole margin off the far side
RoiFromOrigin(crop, img, orig) ==
    IF crop
    THEN Rect(0, 0, orig.width, orig.height)
    ELSE Rect(0, 0, img.cols, img.rows)

\* m_roi as task() computes it: img is m_cropinfo->img() when crop info is
\* supplied (orig is then m_cropinfo->orig_size()), m_srccolor->img() otherwise
Roi(crop, img, orig) ==
    IF crop
    THEN LET expand_x == img.cols - orig.width
             expand_y == img.rows - orig.height
         IN  Rect(TruncDiv(expand_x, 2), TruncDiv(expand_y, 2),
                  img.cols - expand_x, img.rows - expand_y)
    ELSE Rect(0, 0, img.cols, img.rows)

\* every padded size up to MaxSide with every original size it can come from
InitRoi ==
    /\ m_flags = {}
    /\ threads = 1
    /\ cropinfo \in BOOLEAN
    /\ resolution \in {1000}
    /\ degenerate = {}
    /\ Constructed
    /\ img_size \in [cols : 1..MaxSide, rows : 1..MaxSide]
    /\ orig_size \in [width : 1..img_size.cols, height : 1..img_size.rows]
    /\ roi_rect = NoRect
    /\ ApplyUnset

ComputeRoi ==
    /\ roi_rect = NoRect
    /\ roi_rect' = Roi(cropinfo, img_size, orig_size)
    /\ UNCHANGED <<pipeline, img_size, orig_size, applyVars>>

NextRoi == ComputeRoi

RoiSpec == InitRoi /\ [][NextRoi]_vars

\* ------------------------------------------------------------------------
\* Task_Align::apply_contrast_whitebalance(): the dithered apply
\* ------------------------------------------------------------------------
\* The float values are modelled as exact fractions over one denominator per
\* image, so that every step of the loop is integer arithmetic.

\* gains 1/CoeffUnit, 1 and 2
Gains == {1, CoeffUnit, 2 * CoeffUnit}

\* m_contrast: a flat gain, or the identity with a tilt or a bowl on it
Contrasts ==
    {<<g, 0, 0, 0, 0>> : g \in Gains}
        \cup {<<CoeffUnit, 1, 0, -1, 0>>, <<CoeffUnit, 0, 1, 0, -1>>}

\* m_whitebalance: offset and gain of b, of g and of r
WhitebalanceIdentity == <<0, CoeffUnit, 0, CoeffUnit, 0, CoeffUnit>>

Whitebalances ==
    {WhitebalanceIdentity,
     <<-40 * CoeffUnit, CoeffUnit, 1, CoeffUnit, 0, 2 * CoeffUnit>>,
     <<30 * CoeffUnit, 1, 0, CoeffUnit, -1, CoeffUnit>>}

\* the pixels of the image being corrected
GrayPixels == {<<0>>, <<100>>, <<255>>}
ColorPixels == {<<0, 0, 0>>, <<100, 100, 100>>, <<255, 100, 0>>, <<255, 255, 255>>}
Pixels(n) == IF n = 1 THEN GrayPixels ELSE ColorPixels

\* xd = XNum(x, img) / XDen(img), yd likewise
XNum(x, img) == 2 * x - img.cols
XDen(img) == 2 * img.cols
YNum(y, img) == 2 * y - img.rows
YDen(img) == 2 * img.rows

\* denominator of c
ContrastDen(img) == CoeffUnit * XDen(img) * XDen(img) * YDen(img) * YDen(img)

\* c = m_contrast(0) + xd * (m_contrast(1) + m_contrast(2) * xd)
\*                   + yd * (m_contrast(3) + m_contrast(4) * yd), as ContrastNum / ContrastDen
ContrastNum(m, x, y, img) ==
    LET A == XDen(img)
        B == YDen(img)
        X == XNum(x, img)
        Y == YNum(y, img)
    IN  m[1] * A * A * B * B
          + X * (m[2] * A + m[3] * X) * B * B
          + Y * (m[4] * B + m[5] * Y) * A * A

\* denominator of f and of delta
Denominator(img) == CoeffUnit * ContrastDen(img)

\* f = v * c for a grayscale pixel, v * c * gain + offset for a color channel
Corrected(n, k, v, c, wb, img) ==
    IF n = 1
    THEN v * c * CoeffUnit
    ELSE v * c * wb[2 * k] + wb[2 * k - 1] * ContrastDen(img)

\* std::min(255, std::max(0, (int)(f + delta)))
Dithered(f, d, img) ==
    LET i == TruncDiv(f + d, Denominator(img))
    IN  IF i < 0 THEN 0 ELSE IF i > 255 THEN 255 ELSE i

\* delta += f - v
Carried(f, d, v, img) == d + f - v * Denominator(img)

\* every image size up to MaxDim, grayscale and color, with every model
InitApply ==
    /\ m_flags = {}
    /\ threads = 1
    /\ cropinfo = FALSE
    /\ resolution \in {1000}
    /\ degenerate = {}
    /\ Constructed
    /\ img_size \in [cols : 1..MaxDim, rows : 1..MaxDim]
    /\ orig_size = [width |-> img_size.cols, height |-> img_size.rows]
    /\ roi_rect = NoRect
    /\ img_channels \in {1, 3}
    /\ contrast \in Contrasts
    /\ whitebalance \in IF img_channels = 1 THEN {WhitebalanceIdentity} ELSE Whitebalances
    /\ scan = 0
    /\ delta = [k \in 1..img_channels |-> 0]
    /\ pixel = <<>>

\* one turn of the inner loop: the pixel at (x, y) of the scan order
ApplyPixel ==
    /\ img_channels > 0
    /\ scan < img_size.cols * img_size.rows
    /\ \E v \in Pixels(img_channels) :
        LET x == scan % img_size.cols
            y == scan \div img_size.cols
            c == ContrastNum(contrast, x, y, img_size)
            f == [k \in 1..img_channels |-> Corrected(img_channels, k, v[k], c, whitebalance, img_size)]
            w == [k \in 1..img_channels |-> Dithered(f[k], delta[k], img_size)]
        IN  /\ pixel' = w
            /\ delta' = [k \in 1..img_channels |-> Carried(f[k], delta[k], w[k], img_size)]
    /\ scan' = scan + 1
    /\ UNCHANGED <<pipeline, img_size, orig_size, roi_rect, img_channels, contrast, whitebalance>>

NextApply == ApplyPixel

ApplySpec == InitApply /\ [][NextApply]_vars

\* ------------------------------------------------------------------------
\* Helpers of the properties
\* ------------------------------------------------------------------------
\* the tasks handed to the constructor of a task (null pointers left out)
ArgTasks(t) ==
    CASE t[1] = "Align" -> {AlignArgs(t[2])[f] : f \in DOMAIN AlignArgs(t[2])} \ {NoTask}
      [] t[1] = "Gray"  -> {Load(t[2])}
      [] t[1] = "Save"  -> {Align(t[2])}
      [] OTHER          -> {}

RECURSIVE TransArgTasks(_)
TransArgTasks(t) == ArgTasks(t) \cup UNION {TransArgTasks(d) : d \in ArgTasks(t)}

ImageTasks == {t \in Tasks : t[1] # "Save"}

AliveTasks == {d \in Tasks : TaskAlive(d)}

Unfinished == {"Pending", "Ready", "Running"}

\* ------------------------------------------------------------------------
\* C1: a task is never Running unless every task it was constructed from is
\* Done; for an alignment task these are refgray, refcolor, srcgray,
\* srccolor, and the initial-guess and crop-info tasks when supplied.
\* ------------------------------------------------------------------------
C1_RunsAfterDependencies ==
    \A t \in Tasks :
        state[t] = "Running" => \A d \in ArgTasks(t) : state[d] = "Done"

\* an alignment task with an initial guess and crop info is inside its run
C1_Witness ==
    \E i \in Images :
        /\ state[Align(i)] = "Running"
        /\ AlignArgs(i).initial_guess # NoTask
        /\ AlignArgs(i).cropinfo # NoTask
        /\ Cardinality(ArgTasks(Align(i))) >= 5

\* ------------------------------------------------------------------------
\* C2: once a task has failed, every task that depends on it, directly or
\* transitively, stays Pending for ever; main returns only after nothing is
\* ready or running any more, and with status 1 when a task has failed.
\* ------------------------------------------------------------------------
C2_FailurePropagates ==
    /\ \A t \in Tasks :
          (\E d \in TransArgTasks(t) : state[d] = "Failed") => state[t] = "Pending"
    /\ exit # <<>> =>
          /\ \A t \in Tasks : state[t] \notin {"Ready", "Running"}
          /\ (\E t \in Tasks : state[t] = "Failed") => exit = <<1>>
          /\ (\A t \in Tasks : state[t] = "Done") => exit = <<0>>

\* main has returned 1: a load failed, its dependents never ran, and another
\* image went all the way to its save task
C2_Witness ==
    /\ exit = <<1>>
    /\ \E i, j \in Images :
          /\ state[Load(i)] = "Failed"
          /\ state[Gray(i)] = "Pending"
          /\ state[Save(i)] = "Pending"
          /\ state[Save(j)] = "Done"

\* ------------------------------------------------------------------------
\* C3: when a task a has failed, every terminal (save) task b that does not
\* depend on a, directly or transitively, is eventually Done with its input
\* published, unless b or one of b's own dependencies fails itself.  Failed,
\* Done and the published result are final, so "from some point on, always"
\* states that each such b gets there after the failure of a.
\* ------------------------------------------------------------------------
Published(b) == state[b] = "Done" /\ m_result[Align(b[2])] # NoBuf

OwnFailure(b) == \E d \in TransArgTasks(b) \cup {b} : state[d] = "Failed"

Isolated ==
    \A a \in Tasks : \A j \in Images :
        state[a] = "Failed" /\ a \notin TransArgTasks(Save(j))
            => Published(Save(j)) \/ OwnFailure(Save(j))

\* C3: from some point on every save task is isolated from the failures of
\* the tasks it does not depend on
C3_FailureIsolation == <>[]Isolated

\* a task of one image has failed and the save task of another image, which
\* does not depend on it, is Done
C3_Witness ==
    \E a \in Tasks : \E j \in Images :
        /\ state[a] = "Failed"
        /\ a \notin TransArgTasks(Save(j))
        /\ Published(Save(j))
        /\ ~OwnFailure(Save(j))

\* ------------------------------------------------------------------------
\* C4: a task that is Done has reset all its dependency pointers; once all
\* dependents of an image task are Done the task object is gone, even while
\* other tasks are still running.
\* ------------------------------------------------------------------------
AllDependentsDone(d) ==
    /\ state[d] = "Done"
    /\ \A t \in Dependents(d) : state[t] = "Done"

\* task t has the published buffer of one of its dependencies as its result
SharesResultWith(t, d) ==
    /\ d \in ArgTasks(t)
    /\ m_result[d] # NoBuf
    /\ m_result[t] = m_result[d]

\* the alignment task of image i took the short-circuit path
IsShortCircuit(t) ==
    /\ t \in AlignTasks
    /\ AlignArgs(t[2]).refcolor = AlignArgs(t[2]).srccolor

MemberPointees(t) == {Members(t)[f] : f \in held[t]}

\* C5: no buffer is released while an unfinished dependent points to it
C5_NoPrematureRelease ==
    LET alive == AliveTasks
        buffers == {m_result[t] : t \in alive}
    IN  /\ \A t \in Tasks : state[t] \in Unfinished =>
              /\ MemberPointees(t) = ArgTasks(t)
              /\ \A d \in ArgTasks(t) :
                    /\ d \in alive
                    /\ state[d] = "Done" => m_result[d] \in buffers
        /\ \A d \in ImageTasks :
              state[d] = "Done" /\ m_result[d] \notin buffers =>
                  \A t \in Dependents(d) : state[t] = "Done"

\* an alignment task in its final pass is the last unfinished dependent of
\* its grayscale source, whose buffer is still alive
C5_Witness ==
    \E i \in Images :
        /\ state[Align(i)] = "Running"
        /\ pc[Align(i)] = "final"
        /\ \A t \in Dependents(Gray(i)) \ {Align(i)} : state[t] = "Done"
        /\ BufferAlive(m_result[Gray(i)])
        /\ Gray(i) \in MemberPointees(Align(i))

\* ------------------------------------------------------------------------
\* C6: an alignment task whose source color image is its reference color
\* image publishes exactly the pixels of that image, which nobody has written
\* to, and performs no registration step: no sampling, no in-place
\* correction, and the three models stay at their identity initial values.
\* ------------------------------------------------------------------------
C6_IdentityShortCircuit ==
    \A i \in Images :
        LET t == Align(i)
            a == AlignArgs(i)
        IN  a.refcolor = a.srccolor =>
              /\ pc[t] \in {"constructed", "begin", "done"}
              /\ state[t] \in {"Pending", "Ready", "Running", "Done"}
              /\ samples[t] = <<>>
              /\ written[t] = {}
              /\ src[t] = NoBuf
              /\ m_transformation[t] = [m |-> Identity, scaled |-> FALSE]
              /\ m_contrast[t] = "identity"
              /\ m_whitebalance[t] = "identity"
              /\ state[t] = "Done" =>
                    /\ m_result[t] = Img(a.srccolor)
                    /\ \A u \in AlignTasks : Img(a.srccolor) \notin written[u]

\* the alignment task of the reference image is Done
C6_Witness ==
    /\ AlignArgs(Reference).refcolor = AlignArgs(Reference).srccolor
    /\ state[Align(Reference)] = "Done"
    /\ m_result[Align(Reference)] = Img(Load(Reference))

\* ------------------------------------------------------------------------
\* C7: an alignment task in which a numerical solver failed (ECC did not
\* converge, or a least-squares system was degenerate) never ends Done and
\* never publishes a result.
\* ------------------------------------------------------------------------
C7_SolverFailureFailsTask ==
    \A t \in AlignTasks :
        solverFailed[t] => state[t] # "Done" /\ m_result[t] = NoBuf

\* ------------------------------------------------------------------------
\* C8: the photometric models are estimated before the final geometric pass
\* and applied to every sampling of the source that follows their estimate.
\* ------------------------------------------------------------------------
SamplesOf(t) == {samples[t][k] : k \in DOMAIN samples[t]}

\* C8 as stated: both models are estimated when the final geometric pass
\* samples the source, and every sampling applies each model estimated by
\* then
C8_ModelsAppliedOnceEstimated ==
    \A t \in AlignTasks : \A r \in SamplesOf(t) :
        /\ r.stage = "final" => r.contrastEstimated /\ r.whitebalanceEstimated
        /\ r.contrastEstimated => r.contrast
        /\ r.whitebalanceEstimated => r.whitebalance

\* C8 as amended: a model is estimated before the final geometric pass
\* exactly when its fit is not switched off; the contrast model is applied
\* to every sampling that follows its estimate; the white-balance model is
\* applied to every later sampling of the color source, and never to the
\* grayscale source of a geometric pass
C8_ModelsAppliedToTheirChannels ==
    \A t \in AlignTasks : \A r \in SamplesOf(t) :
        /\ r.stage = "final" =>
              /\ r.contrastEstimated <=> ~HasFlag("ALIGN_NO_CONTRAST")
              /\ r.whitebalanceEstimated <=> ~HasFlag("ALIGN_NO_WHITEBALANCE")
        /\ r.contrastEstimated => r.contrast
        /\ r.whitebalanceEstimated /\ r.stage \notin {"rough", "final"} => r.whitebalance
        /\ r.stage \in {"rough", "final"} => r.contrast /\ ~r.whitebalance
        /\ r.stage = "whitebalance" => r.contrast /\ r.whitebalance

\* a full registration ended with both models estimated and applied to the
\* output, after a final pass that saw both estimated
C8_Witness ==
    \E t \in AlignTasks :
        /\ pc[t] = "done"
        /\ \E r \in SamplesOf(t) :
              r.stage = "final" /\ r.contrastEstimated /\ r.whitebalanceEstimated
        /\ \E r \in SamplesOf(t) :
              /\ r.stage = "output"
              /\ r.contrastEstimated /\ r.contrast
              /\ r.whitebalanceEstimated /\ r.whitebalance

\* ------------------------------------------------------------------------
\* C9: every buffer an alignment task modifies in place is one it allocated
\* itself, never the published buffer of another task, whatever the image
\* size is relative to the resolution caps.
\* ------------------------------------------------------------------------
C9_WritesOnlyOwnBuffers ==
    \A t \in AlignTasks : \A b \in written[t] :
        /\ b \in {Tmp(t), Img(t)}
        /\ \A d \in Tasks \ {t} : m_result[d] # b

\* a full registration of images below the cap of the rough pass has
\* corrected its local src and its result in place
C9_Witness ==
    \E t \in AlignTasks :
        /\ pc[t] = "done"
        /\ resolution <= RoughResolution
        /\ src[t] = Tmp(t)
        /\ written[t] = {Tmp(t), Img(t)}

\* ------------------------------------------------------------------------
\* C10: when the rough geometric pass starts, the transform is the one of
\* the initial-guess task, which is Done and was Done when it was read, so
\* the value is the neighbour's final transform; without an initial guess
\* the transform is the identity.
\* ------------------------------------------------------------------------
C10_SeededFromFinishedNeighbour ==
    \A i \in Images :
        LET t == Align(i)
            g == AlignArgs(i).initial_guess
        IN  pc[t] = "rough" =>
              IF g # NoTask
              THEN /\ m_transformation[t] = m_transformation[g]
                   /\ state[g] = "Done"
                   /\ seed[t][1].from = g
                   /\ seed[t][1].neighbourState = "Done"
                   /\ seed[t][1].neighbourPc = "done"
                   /\ m_transformation[g] =
                         IF IsShortCircuit(g)
                         THEN [m |-> Identity, scaled |-> FALSE]
                         ELSE [m |-> Solved(g, "final"), scaled |-> FALSE]
              ELSE m_transformation[t] = [m |-> Identity, scaled |-> FALSE]

\* an alignment task is about to start its rough pass from the transform
\* its neighbour solved in its final pass
C10_Witness ==
    \E i \in Images :
        LET g == AlignArgs(i).initial_guess
        IN  /\ pc[Align(i)] = "rough"
            /\ g # NoTask
            /\ m_transformation[Align(i)].m = Solved(g, "final")

\* the margins the ROI leaves out of the padded image on each side
MarginLeft == roi_rect.x
MarginRight == img_size.cols - (roi_rect.x + roi_rect.width)
MarginTop == roi_rect.y
MarginBottom == img_size.rows - (roi_rect.y + roi_rect.height)

RoiInside ==
    /\ roi_rect.x >= 0
    /\ roi_rect.y >= 0
    /\ roi_rect.x + roi_rect.width <= img_size.cols
    /\ roi_rect.y + roi_rect.height <= img_size.rows

RoiComputed == roi_rect # NoRect

\* C11 as stated: with crop info the ROI has the original size, lies inside
\* the padded image and leaves out equal margins left and right, top and
\* bottom; without crop info it is the full image.
C11_RoiSymmetric ==
    RoiComputed =>
        IF cropinfo
        THEN /\ roi_rect.width = orig_size.width
             /\ roi_rect.height = orig_size.height
             /\ MarginLeft = MarginRight
             /\ MarginTop = MarginBottom
             /\ RoiInside
        ELSE roi_rect = Rect(0, 0, img_size.cols, img_size.rows)

\* C11 amended: with crop info the ROI has the original size and lies inside
\* the padded image; the margin left out on the left (top) is half the
\* padding rounded down and the margin on the right (bottom) is the rest, so
\* the two are equal when the padding is even and the right (bottom) one is
\* one pixel larger when it is odd.  Without crop info the ROI is the full
\* source image.
C11_RoiCentredUpToOnePixel ==
    RoiComputed =>
        IF cropinfo
        THEN LET expand_x == img_size.cols - orig_size.width
                 expand_y == img_size.rows - orig_size.height
             IN  /\ roi_rect.width = orig_size.width
                 /\ roi_rect.height = orig_size.height
                 /\ MarginLeft = expand_x \div 2
                 /\ MarginRight = expand_x - expand_x \div 2
                 /\ MarginTop = expand_y \div 2
                 /\ MarginBottom = expand_y - expand_y \div 2
                 /\ MarginRight - MarginLeft = expand_x % 2
                 /\ MarginBottom - MarginTop = expand_y % 2
                 /\ RoiInside
        ELSE roi_rect = Rect(0, 0, img_size.cols, img_size.rows)

\* a ROI computed from crop info with an odd padding across and an even,
\* non-zero padding down
C11_Witness ==
    /\ RoiComputed
    /\ cropinfo
    /\ (img_size.cols - orig_size.width) % 2 = 1
    /\ img_size.rows - orig_size.height = 2
    /\ MarginRight = MarginLeft + 1
    /\ MarginTop = 1

\* C12 as stated: after every pixel of the apply loop the carried value is
\* below 1 in magnitude in every channel, and the pixel written is within
\* 0..255.
C12_ResidualIsFractional ==
    scan > 0 =>
        \A k \in 1..img_channels :
            /\ delta[k] < Denominator(img_size)
            /\ delta[k] > -Denominator(img_size)
            /\ pixel[k] \in 0..255
====
